---- MODULE Spec2Model ----
(***************************************************************************)
(* Model of main.py: a Salesforce case monitor that authenticates once,    *)
(* polls for open cases created after a watermark (last_check_time),       *)
(* relays each one to a Teams webhook, and either loops with a fixed sleep *)
(* or runs a single cycle (--once).                                        *)
(*                                                                         *)
(* Time is counted in ticks of 1/TicksPerSecond second.  strftime keeps    *)
(* whole seconds only, so a watermark and a CreatedDate are numbers of     *)
(* seconds.  An optional value (None or a value) is a sequence of length   *)
(* 0 or 1.  A string the code inspects is a sequence of tokens.            *)
(***************************************************************************)
EXTENDS Integers, Sequences, FiniteSets, TLC

\* ------------------------------------------------------------- bounds
TicksPerSecond == 2
StartClock == 4001
MaxStep == 1
MaxDrift == 1
MaxCycles == 2

\* ------------------------------------------------- program constants
LOOKBACK_ONCE_MINUTES == 15
LOOKBACK_LOOP_MINUTES == 5
SLEEP_SECONDS == 300

SfInstanceUrl == "https://dynamoxbr.lightning.force.com"
PLACEHOLDER == <<"your_teams_webhook_url">>
STARTUP_MESSAGE == <<"Script de Monitoramento de Casos Iniciado.">>
DEFAULT_SUBJECT == "Sem Assunto"

\* --------------------------------------------------------- environment
None == <<>>
Some(v) == <<v>>

\* The strings TEAMS_WEBHOOK_URL may hold, as token sequences.
WebhookValues ==
    { <<>>,
      <<"https://", "your_teams_webhook_url", "/hook">>,
      <<"https://", "outlook.office.com", "/hook">> }

WebhookSettings == {None} \cup { Some(u) : u \in WebhookValues }

CredentialNames == {"SF_USERNAME", "SF_PASSWORD", "SF_TOKEN"}
CredentialSettings == [CredentialNames -> {None, Some(<<"secret">>)}]

\* The CRM numbers its cases in sequence: the n-th case created gets the
\* n-th identifier and the n-th case number.
CaseIds == <<"500A", "500B">>
CaseNumbers == <<"00001001", "00001002">>

\* A Subject as the API hands it back: a text, or null for a case without
\* one.  AbsentKey marks a record that has no Subject key at all.
NullValue == "null"
AbsentKey == "absent"
SubjectKinds == {"Sensor offline", NullValue}

\* What the webhook endpoint may answer: a status code, or no answer at all.
ConnectionError == 0
HttpOutcomes == {200, 500, ConnectionError}

VARIABLES
    pc,               \* position of main()
    run_once,         \* "--once" in sys.argv
    environ,          \* os.environ: the three credentials and the webhook URL
    sf,               \* the session connect_to_salesforce returned
    clock,            \* wall clock, in ticks
    last_check_time,  \* the watermark: None before line 96, else seconds
    new_cases,        \* result of the cycle's get_new_cases
    idx,              \* position of the for loop in new_cases
    crm,              \* the Case table of the CRM
    calls,            \* history: every send_teams_notification call
    posts,            \* history: every requests.post
    cycles,           \* history: number of fetches started
    sleeps,           \* history: number of time.sleep calls
    connects,         \* history: number of connect_to_salesforce calls
    wm_before,        \* history: the watermark when the cycle's fetch began
    fetch_raised      \* history: whether the cycle's sf.query raised

vars == << pc, run_once, environ, sf, clock, last_check_time, new_cases, idx,
           crm, calls, posts, cycles, sleeps, connects, wm_before, fetch_raised >>

\* ------------------------------------------------------------ helpers
getenv(name) == environ[name]

\* Variant: `is not None` in place of truthiness.
Truthy_NotNone(opt) == opt # None

\* Python truthiness of an optional string: None and "" are falsy.
Truthy(opt) == opt # None /\ opt[1] # <<>>

\* Python's `sub in s` on token sequences.
Contains(sub, s) ==
    \E i \in 1..(Len(s) - Len(sub) + 1) :
        \A j \in 1..Len(sub) : s[i + j - 1] = sub[j]

\* time.strftime('%Y-%m-%dT%H:%M:%SZ', time.gmtime(t)): whole seconds of t.
strftime(t) == t \div TicksPerSecond

Drift == clock - StartClock - sleeps * SLEEP_SECONDS * TicksPerSecond

\* Time a statement may take before it reads the clock.
Elapsed == { d \in 0..MaxStep : Drift + d <= MaxDrift }

\* ------------------------------------------------ connect_to_salesforce
\* What the Salesforce(...) constructor may do with the three credentials:
\* without all three it has nothing to log in with and raises; with them the
\* login is accepted, rejected, or fails for another reason.
SalesforceOutcomes(username, password, token) ==
    IF username = None \/ password = None \/ token = None
    THEN {"TypeError"}
    ELSE {"session", "SalesforceAuthenticationFailed", "Exception"}

\* The try/except of connect_to_salesforce: the session, or None from either
\* except clause.
connect_to_salesforce(outcome) ==
    IF outcome = "session" THEN Some("session") ELSE None

\* ---------------------------------------------- send_teams_notification
\* Variant: only client errors raise.
raise_for_status_4xx(status) == status >= 400 /\ status < 500

\* response.raise_for_status() raises for a 4xx or 5xx status.
raise_for_status(status) == status >= 400 /\ status < 600

\* send_teams_notification(message) when the endpoint behaves as `http`:
\* the value returned and the POSTs made.
send_teams_notification(message, http) ==
    LET webhook_url == getenv("TEAMS_WEBHOOK_URL") IN
    IF ~Truthy(webhook_url) \/ Contains(PLACEHOLDER, webhook_url[1])
    THEN [ret |-> FALSE, posts |-> <<>>]
    ELSE LET payload == [text |-> message]
             post == [url |-> webhook_url[1], json |-> payload, outcome |-> http]
         IN IF http = ConnectionError
            THEN [ret |-> FALSE, posts |-> <<post>>]
            ELSE IF raise_for_status(http)
                 THEN [ret |-> FALSE, posts |-> <<post>>]
                 ELSE [ret |-> TRUE, posts |-> <<post>>]

\* -------------------------------------------------------- get_new_cases
\* Variant: `>=` in place of `>`.
Matching_Inclusive(table, since) ==
    { r \in table : ~r.IsClosed /\ r.CreatedDate >= since }

\* The rows the SOQL query selects: open cases created after the watermark.
Matching(table, since) ==
    { r \in table : ~r.IsClosed /\ r.CreatedDate > since }

\* The record the API hands back for a row (IsClosed is not selected).
Projection(r) ==
    [Id |-> r.Id, CaseNumber |-> r.CaseNumber, Subject |-> r.Subject,
     CreatedDate |-> r.CreatedDate]

\* ORDER BY CreatedDate DESC: every ordering of the rows with no later row
\* newer than an earlier one (rows of the same second come in any order).
QueryResults(table, since) ==
    LET rows == Matching(table, since)
        n == Cardinality(rows)
    IN { s \in [1..n -> { Projection(r) : r \in rows }] :
            /\ \A i, j \in 1..n : i # j => s[i] # s[j]
            /\ \A i, j \in 1..n : i < j => s[i].CreatedDate >= s[j].CreatedDate }

\* Variant: the except clause hands back what the query had matched.
get_new_cases_NoSwallow(result, raised) == result

\* get_new_cases(sf, last_check_time): the records, or [] when sf.query raised.
get_new_cases(result, raised) ==
    IF raised THEN <<>> ELSE result

\* ------------------------------------------------------------------ main
\* Lines 86-87: `if not sf: return`, else go on to the startup message.
AfterConnect_NoReturn(session) == "startup"
AfterConnect(session) == IF session = None THEN "done" ELSE "startup"

\* Line 90: `if not run_once:` guards the startup message.
SendsStartup_Always(once) == TRUE
SendsStartup(once) == ~once

\* Line 105: `for case in new_cases` visits the records front to back.
CurrentCase_Reversed(cases, i) == cases[Len(cases) - i + 1]
CurrentCase(cases, i) == cases[i]

\* Lines 124-129: `if run_once: break`, else sleep and loop.
AfterCycle_NoBreak(once) == "sleep"
AfterCycle(once) == IF once THEN "done" ELSE "sleep"

\* Variant: the two windows swapped.
lookback_minutes_Swapped(once) ==
    IF once THEN LOOKBACK_LOOP_MINUTES ELSE LOOKBACK_ONCE_MINUTES

\* lookback_minutes = 15 if run_once else 5
lookback_minutes(once) ==
    IF once THEN LOOKBACK_ONCE_MINUTES ELSE LOOKBACK_LOOP_MINUTES

\* Line 96: strftime(gmtime(time.time() - lookback_minutes * 60)).
InitialWatermark(now, once) ==
    strftime(now - lookback_minutes(once) * 60 * TicksPerSecond)

\* case.get('Subject', 'Sem Assunto')
GetSubject(case) ==
    IF case.Subject = AbsentKey THEN DEFAULT_SUBJECT ELSE case.Subject

\* How an f-string renders a value: None prints as "None".
Format(v) == IF v = NullValue THEN "None" ELSE v

\* Variant: the link stops at the identifier.
Link_NoView(case_id) == <<SfInstanceUrl, "/lightning/r/Case/", case_id>>

\* link = f"{SF_INSTANCE_URL}/lightning/r/Case/{case_id}/view"
Link(case_id) == <<SfInstanceUrl, "/lightning/r/Case/", case_id, "/view">>

\* The message of lines 106-113, as its parts in order.
FormatMessage(case) ==
    LET case_id == case.Id
        case_num == case.CaseNumber
        subject == GetSubject(case)
    IN <<"Novo Caso Recebido!", "Numero:", Format(case_num),
         "Assunto:", Format(subject), "Visualizar no Salesforce">>
       \o Link(case_id)

\* Variant: line 96 repeated at line 119, with the longer lookback.
UpdatedWatermark_Lookback(now) ==
    strftime(now - LOOKBACK_ONCE_MINUTES * 60 * TicksPerSecond)

\* Line 119: strftime(gmtime()).
UpdatedWatermark(now) == strftime(now)

\* time.sleep(300)
SleepTicks == SLEEP_SECONDS * TicksPerSecond

Call(message, case_id, ret) ==
    [message |-> message, case |-> case_id, ret |-> ret, cycle |-> cycles]

Init ==
    /\ pc = "start"
    /\ run_once \in BOOLEAN
    /\ environ \in [CredentialNames \cup {"TEAMS_WEBHOOK_URL"} ->
                      {None, Some(<<"secret">>)} \cup WebhookSettings]
    /\ \A n \in CredentialNames : environ[n] \in {None, Some(<<"secret">>)}
    /\ environ["TEAMS_WEBHOOK_URL"] \in WebhookSettings
    /\ sf = None
    /\ clock = StartClock
    /\ last_check_time = None
    /\ new_cases = <<>>
    /\ idx = 1
    /\ crm = {}
    /\ calls = <<>>
    /\ posts = <<>>
    /\ cycles = 0
    /\ sleeps = 0
    /\ connects = 0
    /\ wm_before = None
    /\ fetch_raised = FALSE

\* Lines 85-87: sf = connect_to_salesforce(); if not sf: return
Connect ==
    /\ pc = "start"
    /\ \E d \in Elapsed,
          outcome \in SalesforceOutcomes(getenv("SF_USERNAME"),
                                         getenv("SF_PASSWORD"),
                                         getenv("SF_TOKEN")) :
        /\ clock' = clock + d
        /\ sf' = connect_to_salesforce(outcome)
        /\ pc' = AfterConnect(sf')
    /\ connects' = connects + 1
    /\ UNCHANGED << run_once, environ, last_check_time, new_cases, idx, crm,
                    calls, posts, cycles, sleeps, wm_before, fetch_raised >>

\* Lines 90-91: the startup message, in loop mode only.
StartupNotify ==
    /\ pc = "startup"
    /\ \E d \in Elapsed, http \in HttpOutcomes :
        /\ clock' = clock + d
        /\ IF SendsStartup(run_once)
           THEN LET r == send_teams_notification(STARTUP_MESSAGE, http) IN
                /\ calls' = Append(calls, Call(STARTUP_MESSAGE, "", r.ret))
                /\ posts' = posts \o r.posts
           ELSE UNCHANGED << calls, posts >>
    /\ pc' = "init_watermark"
    /\ UNCHANGED << run_once, environ, sf, last_check_time, new_cases, idx, crm,
                    cycles, sleeps, connects, wm_before, fetch_raised >>

\* Lines 95-96: the initial watermark.
InitWatermark ==
    /\ pc = "init_watermark"
    /\ \E d \in Elapsed :
        /\ clock' = clock + d
        /\ last_check_time' = Some(InitialWatermark(clock', run_once))
    /\ pc' = "fetch"
    /\ UNCHANGED << run_once, environ, sf, new_cases, idx, crm, calls, posts,
                    cycles, sleeps, connects, wm_before, fetch_raised >>

\* Lines 101-103: new_cases = get_new_cases(sf, last_check_time); if new_cases:
Fetch ==
    /\ pc = "fetch"
    /\ cycles < MaxCycles
    /\ \E d \in Elapsed, raised \in BOOLEAN,
          result \in QueryResults(crm, last_check_time[1]) :
        /\ clock' = clock + d
        /\ new_cases' = get_new_cases(result, raised)
        /\ fetch_raised' = raised
    /\ idx' = 1
    /\ wm_before' = last_check_time
    /\ cycles' = cycles + 1
    /\ pc' = IF new_cases' # <<>> THEN "notify" ELSE "no_cases"
    /\ UNCHANGED << run_once, environ, sf, last_check_time, crm, calls, posts,
                    sleeps, connects >>

\* Lines 105-116: one iteration of `for case in new_cases`.
NotifyCase ==
    /\ pc = "notify"
    /\ idx <= Len(new_cases)
    /\ \E d \in Elapsed, http \in HttpOutcomes :
        LET case == CurrentCase(new_cases, idx)
            msg == FormatMessage(case)
            r == send_teams_notification(msg, http)
        IN /\ clock' = clock + d
           /\ calls' = Append(calls, Call(msg, case.Id, r.ret))
           /\ posts' = posts \o r.posts
    /\ idx' = idx + 1
    /\ pc' = IF idx' > Len(new_cases) THEN "update" ELSE "notify"
    /\ UNCHANGED << run_once, environ, sf, last_check_time, new_cases, crm,
                    cycles, sleeps, connects, wm_before, fetch_raised >>

\* Line 119, inside `if new_cases:` after the for loop.
UpdateWatermark ==
    /\ pc = "update"
    /\ \E d \in Elapsed :
        /\ clock' = clock + d
        /\ last_check_time' = Some(UpdatedWatermark(clock'))
    /\ pc' = "check_once"
    /\ UNCHANGED << run_once, environ, sf, new_cases, idx, crm, calls, posts,
                    cycles, sleeps, connects, wm_before, fetch_raised >>

\* Lines 120-121: the else branch only prints.
NoCases ==
    /\ pc = "no_cases"
    /\ \E d \in Elapsed : clock' = clock + d
    /\ pc' = "check_once"
    /\ UNCHANGED << run_once, environ, sf, last_check_time, new_cases, idx, crm,
                    calls, posts, cycles, sleeps, connects, wm_before,
                    fetch_raised >>

\* Lines 124-126: if run_once: break
CheckOnce ==
    /\ pc = "check_once"
    /\ pc' = AfterCycle(run_once)
    /\ UNCHANGED << run_once, environ, sf, clock, last_check_time, new_cases,
                    idx, crm, calls, posts, cycles, sleeps, connects, wm_before,
                    fetch_raised >>

\* Line 129: time.sleep(300), then back to the top of the while loop.
Sleep ==
    /\ pc = "sleep"
    /\ clock' = clock + SleepTicks
    /\ sleeps' = sleeps + 1
    /\ pc' = "fetch"
    /\ UNCHANGED << run_once, environ, sf, last_check_time, new_cases, idx, crm,
                    calls, posts, cycles, connects, wm_before, fetch_raised >>

\* The CRM's users open a case: its CreatedDate is the current second.
CreateCase ==
    /\ Cardinality(crm) < Len(CaseIds)
    /\ \E subject \in SubjectKinds :
        LET n == Cardinality(crm) + 1 IN
        /\ crm' = crm \cup { [Id |-> CaseIds[n], CaseNumber |-> CaseNumbers[n],
                              Subject |-> subject,
                              CreatedDate |-> strftime(clock),
                              IsClosed |-> FALSE] }
    /\ UNCHANGED << pc, run_once, environ, sf, clock, last_check_time, new_cases,
                    idx, calls, posts, cycles, sleeps, connects, wm_before,
                    fetch_raised >>

\* The CRM's users close a case.
CloseCase ==
    /\ \E r \in crm :
        /\ ~r.IsClosed
        /\ crm' = (crm \ {r}) \cup { [r EXCEPT !.IsClosed = TRUE] }
    /\ UNCHANGED << pc, run_once, environ, sf, clock, last_check_time, new_cases,
                    idx, calls, posts, cycles, sleeps, connects, wm_before,
                    fetch_raised >>

Program ==
    \/ Connect
    \/ StartupNotify
    \/ InitWatermark
    \/ Fetch
    \/ NotifyCase
    \/ UpdateWatermark
    \/ NoCases
    \/ CheckOnce
    \/ Sleep

Next ==
    \/ Connect
    \/ StartupNotify
    \/ InitWatermark
    \/ Fetch
    \/ NotifyCase
    \/ UpdateWatermark
    \/ NoCases
    \/ CheckOnce
    \/ Sleep
    \/ CreateCase
    \/ CloseCase

Spec == Init /\ [][Next]_vars

\* main() is one thread that keeps running: no step of it waits forever.
FairSpec == Spec /\ WF_vars(Program)

\* ======================================================== properties
\* The webhook URL the run was started with.
WebhookUrl == environ["TEAMS_WEBHOOK_URL"]

\* The endpoint is unset, empty, or still the placeholder.
Unconfigured ==
    \/ WebhookUrl = None
    \/ WebhookUrl = Some(<<>>)
    \/ (WebhookUrl # None /\ Contains(PLACEHOLDER, WebhookUrl[1]))

\* A POST that completed with a non-error status.
Delivered(post) == post.outcome # ConnectionError /\ post.outcome < 400

\* The Notifier calls made for case records (not the startup message).
CaseCalls == SelectSeq(calls, LAMBDA c : c.case # "")

\* The Notifier calls made for case records in the latest cycle.
CycleCalls == SelectSeq(calls, LAMBDA c : c.case # "" /\ c.cycle = cycles)

\* The cycle's fetch-notify part is over.
CycleOver == pc \in {"check_once", "sleep"} \/ (pc = "done" /\ sf # None)

\* C1 as stated: at the end of every cycle the watermark is the current
\* clock value, also after a fetch that returned no record.
C1_AdvancesEveryCycle ==
    pc = "check_once" => last_check_time = Some(strftime(clock))

\* C1 as amended: at the end of a cycle whose fetch returned at least one
\* record the watermark is the current clock value; at the end of a cycle
\* whose fetch returned no record the watermark is what it was before the
\* cycle.
C1_AdvancesWhenCasesFound ==
    pc = "check_once" =>
        IF new_cases # <<>>
        THEN last_check_time = Some(strftime(clock))
        ELSE last_check_time = wm_before

C1_Witness ==
    /\ pc = "check_once"
    /\ new_cases = <<>>
    /\ ~fetch_raised
    /\ last_check_time = wm_before
    /\ last_check_time # Some(strftime(clock))

\* C2: in every cycle, from its fetch on, the watermark is at least the
\* watermark the cycle started with, whatever the fetch and the
\* notifications did.
C2_WatermarkMonotonic ==
    wm_before # None =>
        /\ last_check_time # None
        /\ last_check_time[1] >= wm_before[1]

C2_Witness ==
    /\ pc = "check_once"
    /\ cycles >= 2
    /\ last_check_time[1] > wm_before[1]
    /\ \E i \in 1..Len(calls) : calls[i].case # "" /\ ~calls[i].ret

\* C3: what the counters say in each mode.  Single-shot never sleeps, runs at
\* most one cycle and has run exactly one when it ends; loop mode never ends
\* once authenticated, and has slept exactly once between any two cycles.
C3_ModeCounters ==
    /\ run_once => (sleeps = 0 /\ cycles <= 1)
    /\ (run_once /\ pc = "done" /\ sf # None) => cycles = 1
    /\ (~run_once /\ sf # None) => pc # "done"
    /\ ~run_once =>
          sleeps = IF pc = "fetch" \/ cycles = 0 THEN cycles ELSE cycles - 1

\* C3: after a successful authentication single-shot mode runs exactly one
\* cycle and ends without sleeping, and loop mode keeps running cycles (up to
\* the bound of the model), one sleep between consecutive cycles, and never
\* ends.
C3_SingleShotAndLoop ==
    /\ []C3_ModeCounters
    /\ (run_once /\ sf # None) ~> (pc = "done" /\ cycles = 1 /\ sleeps = 0)
    /\ (~run_once /\ sf # None) ~> (cycles = MaxCycles /\ pc = "fetch")

C3_Witness ==
    /\ ~run_once
    /\ cycles >= 2
    /\ sleeps = cycles - 1
    /\ pc = "check_once"

\* C4: without a session nothing else happens: one login attempt, no fetch,
\* no Notifier call and no POST, and the process has ended.  A missing
\* credential always ends this way.
C4_NoSessionHalts ==
    /\ connects <= 1
    /\ (pc # "start" /\ sf = None) =>
          /\ pc = "done"
          /\ connects = 1
          /\ cycles = 0
          /\ calls = <<>>
          /\ posts = <<>>
          /\ last_check_time = None
    /\ (pc # "start" /\ \E n \in CredentialNames : environ[n] = None) =>
          sf = None

C4_Witness ==
    /\ pc = "done"
    /\ sf = None
    /\ \A n \in CredentialNames : environ[n] # None
    /\ ~run_once
    /\ ~Unconfigured

\* C5: after a fetch whose query raised, the cycle has no record and makes no
\* Notifier call, main() is on the no-case path, and only single-shot mode
\* ends.
C5_FetchFailureSwallowed ==
    fetch_raised =>
        /\ new_cases = <<>>
        /\ CycleCalls = <<>>
        /\ pc \in {"no_cases", "check_once", "sleep", "fetch", "done"}
        /\ pc = "done" => run_once

C5_Witness ==
    /\ fetch_raised
    /\ ~run_once
    /\ pc = "fetch"
    /\ sleeps = 1
    /\ Matching(crm, last_check_time[1]) # {}

\* C6: the Notifier calls of a cycle are the fetched records, one call each,
\* in the order fetched, each with that record's message; they are all made
\* before the watermark moves and before the cycle sleeps or ends; a fetch
\* with no record makes no call.
C6_OneCallPerRecordInOrder ==
    LET done == IF pc = "notify" THEN idx - 1
                ELSE IF cycles = 0 THEN 0 ELSE Len(new_cases)
    IN /\ Len(CycleCalls) = done
       /\ \A i \in 1..done :
             /\ CycleCalls[i].case = new_cases[i].Id
             /\ CycleCalls[i].message = FormatMessage(new_cases[i])
       /\ pc \in {"notify", "update"} => last_check_time = wm_before
       /\ pc = "notify" => idx <= Len(new_cases)

C6_Witness ==
    /\ pc = "update"
    /\ Len(new_cases) = 2
    /\ Len(CycleCalls) = 2
    /\ new_cases[1].Id = CaseIds[2]

\* C7: a failed delivery is not retried and does not cut the cycle short: a
\* call makes at most one POST, every record of the cycle is still passed to
\* the Notifier, the watermark at the end of the cycle is not before any
\* record of the cycle, and no case is passed to the Notifier a second time
\* after a failed call for it.
C7_FailedDeliveryNotRetried ==
    /\ Len(posts) <= Len(calls)
    /\ CycleOver => Len(CycleCalls) = Len(new_cases)
    /\ (CycleOver /\ new_cases # <<>>) =>
          \A i \in 1..Len(new_cases) :
              last_check_time[1] >= new_cases[i].CreatedDate
    /\ \A i, j \in 1..Len(CaseCalls) :
          (i < j /\ ~CaseCalls[i].ret) => CaseCalls[i].case # CaseCalls[j].case

C7_Witness ==
    /\ pc = "check_once"
    /\ cycles = 2
    /\ Len(CaseCalls) = 2
    /\ ~CaseCalls[1].ret
    /\ CaseCalls[1].cycle = 1
    /\ CaseCalls[2].cycle = 1
    /\ \A r \in crm : ~r.IsClosed

\* C8: with the webhook URL unset, empty or holding the placeholder, every
\* Notifier call returned false and no POST was made.
C8_UnconfiguredNeverPosts ==
    Unconfigured =>
        /\ posts = <<>>
        /\ \A i \in 1..Len(calls) : ~calls[i].ret

C8_Witness ==
    /\ WebhookUrl = Some(<<>>)
    /\ Len(calls) >= 2
    /\ posts = <<>>

\* C9: with a configured webhook URL every Notifier call made exactly one
\* POST, of the message as the JSON field text to that URL, and returned true
\* exactly when the POST completed with a non-error status.
C9_OnePostPerCall ==
    ~Unconfigured =>
        /\ Len(posts) = Len(calls)
        /\ \A i \in 1..Len(calls) :
              /\ posts[i].url = WebhookUrl[1]
              /\ posts[i].json = [text |-> calls[i].message]
              /\ calls[i].ret <=> Delivered(posts[i])

C9_Witness ==
    /\ ~Unconfigured
    /\ Len(calls) = 3
    /\ posts[1].outcome = 500
    /\ posts[2].outcome = ConnectionError
    /\ posts[3].outcome = 200
    /\ calls[3].ret

\* C10: the startup message is sent in loop mode only, once, after the login
\* and before the first fetch: it is the first Notifier call, made before any
\* cycle, and there is no other; single-shot mode never sends it; whatever it
\* returned, main() goes on to the first cycle.
C10_StartupLoopModeOnly ==
    LET startups == SelectSeq(calls, LAMBDA c : c.case = "")
        due == ~run_once /\ sf # None /\ pc # "startup"
    IN /\ Len(startups) = IF due THEN 1 ELSE 0
       /\ due => /\ calls[1].case = ""
                 /\ calls[1].message = STARTUP_MESSAGE
                 /\ calls[1].cycle = 0
       /\ (sf # None /\ pc = "done") => cycles >= 1

C10_Witness ==
    /\ ~run_once
    /\ cycles >= 1
    /\ Len(calls) >= 2
    /\ calls[1].case = ""
    /\ ~calls[1].ret
    /\ ~Unconfigured

\* The row of the CRM a Notifier call was made for.
RowOf(call) == CHOOSE r \in crm : r.Id = call.case

\* C11: the message of every Notifier call made for a case holds that case's
\* own number and no other case's, and the link <base-url>/lightning/r/Case/
\* <id>/view with that case's own identifier and no other link; every POST
\* carries a JSON object whose only field is text, holding the message.
C11_MessageOfOwnRecord ==
    /\ \A i \in 1..Len(CaseCalls) :
          LET call == CaseCalls[i]
              n == CHOOSE k \in 1..Len(CaseIds) : CaseIds[k] = call.case
          IN /\ \E k \in 1..Len(call.message) : call.message[k] = CaseNumbers[n]
             /\ Contains(<<SfInstanceUrl, "/lightning/r/Case/", CaseIds[n], "/view">>,
                         call.message)
             /\ call.message[Len(call.message)] = "/view"
             /\ RowOf(call).CaseNumber = CaseNumbers[n]
             /\ \A m \in 1..Len(CaseIds) : m # n =>
                   \A k \in 1..Len(call.message) :
                       /\ call.message[k] # CaseNumbers[m]
                       /\ call.message[k] # CaseIds[m]
    /\ \A i \in 1..Len(posts) :
          /\ DOMAIN posts[i].json = {"text"}
          /\ \E j \in 1..Len(calls) : posts[i].json.text = calls[j].message

C11_Witness ==
    /\ Len(CaseCalls) = 2
    /\ Len(posts) = 2
    /\ CaseCalls[1].cycle = 1
    /\ CaseCalls[2].cycle = 1
    /\ CaseCalls[1].case = CaseIds[2]
    /\ posts[1].json.text = CaseCalls[1].message
    /\ posts[2].json.text = CaseCalls[2].message

\* The lookback window of the mode, in seconds: 5 or 15 minutes.
LookbackSeconds == IF run_once THEN 15 * 60 ELSE 5 * 60

\* C12: when the initial watermark has just been computed it is the clock of
\* that moment, in whole seconds, less 5 minutes in loop mode and 15 minutes
\* in single-shot mode; the first fetch is given exactly that value, which
\* lies between the start of the process and the fetch less the window, and
\* every record it returns is newer.
C12_InitialWatermark ==
    /\ cycles = 0 => wm_before = None
    /\ (pc = "fetch" /\ cycles = 0) =>
          last_check_time = Some(strftime(clock) - LookbackSeconds)
    /\ (cycles = 1 /\ sf # None) =>
          /\ wm_before # None
          /\ wm_before[1] >= strftime(StartClock) - LookbackSeconds
          /\ wm_before[1] <= strftime(clock) - LookbackSeconds
          /\ \A i \in 1..Len(new_cases) : new_cases[i].CreatedDate > wm_before[1]
          /\ pc \in {"notify", "update", "no_cases"} => last_check_time = wm_before

C12_Witness ==
    /\ run_once
    /\ cycles = 1
    /\ pc = "notify"
    /\ wm_before = Some(strftime(StartClock) - 900)
    /\ Len(new_cases) = 2

\* The part of a case message that follows "Assunto:".
SubjectShown(message) ==
    LET k == CHOOSE k \in 1..Len(message) : message[k] = "Assunto:"
    IN message[k + 1]

\* C13: the message of every Notifier call made for a case shows the case's
\* subject, and shows the default placeholder when the record has no Subject
\* key or its Subject carries no value.
C13_SubjectOrPlaceholder ==
    \A i \in 1..Len(CaseCalls) :
        LET subject == RowOf(CaseCalls[i]).Subject
        IN SubjectShown(CaseCalls[i].message) =
              IF subject \in {NullValue, AbsentKey}
              THEN DEFAULT_SUBJECT
              ELSE subject

\* C14: no case is passed to the Notifier twice in a run.
C14_NoCaseNotifiedTwice ==
    \A i, j \in 1..Len(CaseCalls) :
        i # j => CaseCalls[i].case # CaseCalls[j].case

C14_Witness ==
    /\ ~run_once
    /\ pc = "check_once"
    /\ cycles = 2
    /\ ~fetch_raised
    /\ Len(CaseCalls) = 2
    /\ CaseCalls[1].cycle = 1
    /\ CaseCalls[2].cycle = 2
    /\ \A r \in crm : ~r.IsClosed
    /\ \A r \in crm : r.CreatedDate > wm_before[1] <=> r.Id = CaseIds[2]

\* The open cases no Notifier call has been made for.
Unnotified ==
    { r \in crm : /\ ~r.IsClosed
                  /\ \A i \in 1..Len(CaseCalls) : CaseCalls[i].case # r.Id }

\* C15: in loop mode every case created after the initial watermark that
\* stays open reaches the Notifier in some cycle, also one created between a
\* cycle's query and its watermark update.  The watermark never moves back,
\* so a later fetch can return such a case only if its CreatedDate is after
\* the watermark: stated here for the watermark update of a first cycle whose
\* fetch succeeded, which must leave every open case not yet notified after
\* the new watermark.
C15_OpenCaseStillPickedUp ==
    [][ (/\ ~run_once
         /\ pc = "update"
         /\ pc' = "check_once"
         /\ cycles = 1
         /\ ~fetch_raised)
        => \A r \in Unnotified : r.CreatedDate > last_check_time'[1] ]_vars

====
